---- MODULE Spec2Model ----
(***************************************************************************)
(* A model of generator.py, the Inkscape "Generator" extension: one        *)
(* customised document per csv row, made from an svg template by text      *)
(* substitution (expand_extra_vars, expand_vars) and layer filtering       *)
(* (filter_layers), then exported (export) and cleaned up (clean).         *)
(*                                                                         *)
(* Python str values are TLA+ strings; a list or tuple is a sequence; a    *)
(* dict is a function.  The iteration order of a Python 2 dict is decided  *)
(* by the hash values of its keys: the model draws it as any permutation   *)
(* of the keys.  The template is well-formed xml before and after the      *)
(* substitutions: a line of it is one svg:g element, and the text that is  *)
(* substituted is the value of its label.  The outcome of an operation of  *)
(* the file system (open, write, move) is drawn by the environment.        *)
(***************************************************************************)
EXTENDS Naturals, Integers, Sequences, FiniteSets, TLC

VARIABLES
    \* --- Generator object and its environment (specification Spec) ---
    args,       \* the options as given on the command line
    options,    \* self.options: format, var_type, extra_vars, output, preview
    datafile,   \* the file options.datafile: whether it can be read, and its csv rows
    svg_file,   \* the template: a sequence of lines, one group element each
    header,     \* self.header
    data,       \* self.data
    svgouts,    \* self.svgouts: dict row tuple -> temporary svg file
    keyorder,   \* the order in which self.svgouts iterates (its keys)
    tmpfiles,   \* files present in self.tmpdir: file name -> document written
    tmpdir,     \* TRUE while the directory self.tmpdir exists
    created,    \* the calls of create_svg that returned: <<row, file>> each
    outputs,    \* what export did, in order: moves and render commands
    previewed,  \* the files show_preview opened
    errors,     \* the messages passed to errormsg
    raised,     \* the exception that ended effect(), "" when none did
    pc,         \* position in effect()
    ri,         \* loop index of create_svg_name over self.data
    ei,         \* loop index of export over self.svgouts
    \* --- one call of filter_layers (specification SpecFilter) ---
    root,       \* the xml tree: the svg:g elements in document order
    root0,      \* the tree filter_layers was called with
    name_dict,  \* the row descriptor
    gi,         \* loop index over root.xpath("//svg:g")
    warned,     \* per group: the columns errormsg reported for it
    \* --- expand_vars applied twice (specification SpecVars) ---
    text,       \* the text expand_vars is given
    vdict,      \* the row descriptor
    out1,       \* expand_vars(text)
    out2,       \* expand_vars(expand_vars(text))
    vpc         \* number of applications made

pipevars == <<args, options, datafile, svg_file, header, data, svgouts, keyorder,
              tmpfiles, tmpdir, created, outputs, previewed, errors, raised, pc,
              ri, ei>>
filtervars == <<root, root0, name_dict, gi, warned>>
varsvars == <<text, vdict, out1, out2, vpc>>
vars == <<pipevars, filtervars, varsvars>>

(***************************************************************************)
(* Python str methods                                                      *)
(***************************************************************************)

\* sub in s
Occurs(s, sub) ==
    \E i \in 1..(Len(s) + 1) :
        /\ i + Len(sub) - 1 <= Len(s)
        /\ SubSeq(s, i, i + Len(sub) - 1) = sub

\* s.find(sub) + 1: the first place sub occurs at, 0 when it does not
Find(s, sub) ==
    IF Occurs(s, sub)
    THEN CHOOSE i \in 1..(Len(s) + 1) :
            /\ i + Len(sub) - 1 <= Len(s)
            /\ SubSeq(s, i, i + Len(sub) - 1) = sub
            /\ \A j \in 1..(i - 1) : SubSeq(s, j, j + Len(sub) - 1) # sub
    ELSE 0

RECURSIVE Interleave(_, _)
\* s.replace("", new): new before every character and at the end
Interleave(s, new) ==
    IF s = "" THEN new
    ELSE new \o SubSeq(s, 1, 1) \o Interleave(SubSeq(s, 2, Len(s)), new)

RECURSIVE Replace(_, _, _)
\* s.replace(old, new): the occurrences found left to right, not overlapping
Replace(s, old, new) ==
    IF old = "" THEN Interleave(s, new)
    ELSE IF Len(s) < Len(old) THEN s
    ELSE IF SubSeq(s, 1, Len(old)) = old
         THEN new \o Replace(SubSeq(s, Len(old) + 1, Len(s)), old, new)
         ELSE SubSeq(s, 1, 1) \o Replace(SubSeq(s, 2, Len(s)), old, new)

RECURSIVE Split(_, _)
\* s.split(sep), sep not empty
Split(s, sep) ==
    LET i == Find(s, sep)
    IN  IF i = 0 THEN <<s>>
        ELSE <<SubSeq(s, 1, i - 1)>> \o Split(SubSeq(s, i + Len(sep), Len(s)), sep)

\* the lower case form of one character
LowerChar(c) ==
    LET upper == "ABCDEFGHIJKLMNOPQRSTUVWXYZ"
        lower == "abcdefghijklmnopqrstuvwxyz"
        at == {i \in 1..Len(upper) : SubSeq(upper, i, i) = c}
    IN  IF at = {} THEN c ELSE LET i == CHOOSE x \in at : TRUE IN SubSeq(lower, i, i)

RECURSIVE Lower(_)
\* s.lower()
Lower(s) ==
    IF s = "" THEN "" ELSE LowerChar(SubSeq(s, 1, 1)) \o Lower(SubSeq(s, 2, Len(s)))

\* xml.sax.saxutils.escape(v)
escape(v) ==
    Replace(Replace(Replace(v, "&", "&amp;"), ">", "&gt;"), "<", "&lt;")

\* the sequences that list every element of the set S once
Perms(S) ==
    {p \in [1..Cardinality(S) -> S] : \A i, j \in 1..Cardinality(S) : p[i] = p[j] => i = j}

(***************************************************************************)
(* expand_vars                                                             *)
(***************************************************************************)

RECURSIVE expand_vars_loop_escape_line(_, _, _, _)
\* expand_vars_loop with escape() around the line after the replacement
\* instead of around the value
expand_vars_loop_escape_line(line, d, order, i) ==
    IF i > Len(order) THEN line
    ELSE expand_vars_loop_escape_line(
             escape(Replace(line, "%VAR_" \o order[i] \o "%", d[order[i]])),
             d, order, i + 1)

RECURSIVE expand_vars_loop(_, _, _, _)
expand_vars_loop(line, d, order, i) ==
    IF i > Len(order) THEN line
    ELSE expand_vars_loop(Replace(line, "%VAR_" \o order[i] \o "%", escape(d[order[i]])),
                          d, order, i + 1)

\* expand_vars(line, name_dict), name_dict.iteritems() running in `order`
expand_vars(line, d, order) ==
    IF ~Occurs(line, "%") THEN line
    ELSE expand_vars_loop(line, d, order, 1)

(***************************************************************************)
(* filter_layers.  The tree is the list root.xpath("//svg:g") returns: the *)
(* group elements in document order.  A group is a record                  *)
(*   parent: the group it is a child of, 0 for a group that is a child of  *)
(*           an element that is no group, Detached once the element that   *)
(*           held it was cleared;                                          *)
(*   attrib: g.attrib, a function from attribute names to values;          *)
(*   leaves: the number of its children that are no groups.                *)
(***************************************************************************)

Detached == -1

NoAttrib == [k \in {} |-> ""]

\* del g.attrib[name]
DelAttrib(attrib, name) == [k \in (DOMAIN attrib) \ {name} |-> attrib[k]]

\* the groups that are children of group g
ChildGroups(tree, g) == {h \in 1..Len(tree) : tree[h].parent = g}

\* g.clear(): no children, no attributes; the children leave the tree
Clear(tree, g) ==
    [h \in 1..Len(tree) |->
        IF h = g THEN [parent |-> tree[g].parent, attrib |-> NoAttrib, leaves |-> 0]
        ELSE IF tree[h].parent = g THEN [tree[h] EXCEPT !.parent = Detached]
        ELSE tree[h]]

\* if 'style' in g.attrib: del g.attrib['style']
StripStyle(tree, g) ==
    IF "style" \in DOMAIN tree[g].attrib
    THEN [tree EXCEPT ![g].attrib = DelAttrib(@, "style")]
    ELSE tree

\* re.match('.*' + marker + '([^%]*)%', label): <<>> for None, else <<groups()[0]>>.
\* The greedy .* makes the match start at the last place where marker stands
\* with a % somewhere after it; [^%]* then runs to the first such %.
MatchMarker(label, marker) ==
    LET n == Len(marker)
        closes(p) == {q \in (p + n)..Len(label) : SubSeq(label, q, q) = "%"}
        starts == {p \in 1..Len(label) :
                      /\ p + n - 1 <= Len(label)
                      /\ SubSeq(label, p, p + n - 1) = marker
                      /\ closes(p) # {}}
    IN  IF starts = {} THEN <<>>
        ELSE LET p == CHOOSE x \in starts : \A y \in starts : y <= x
                 q == CHOOSE x \in closes(p) : \A y \in closes(p) : x <= y
             IN  <<SubSeq(label, p + n, q - 1)>>

\* line 234 without the call of lower(): "No" and "FALSE" count as true
if_visible_case_sensitive(var) == var # "" /\ var \notin {"0", "false", "no"}

\* line 234: var and (var.lower() not in ('0', 'false', 'no'))
if_visible(var) == var # "" /\ Lower(var) \notin {"0", "false", "no"}

\* line 253: not(var) or (var.lower() in ('0', 'false', 'no'))
unless_visible(var) == var = "" \/ Lower(var) \in {"0", "false", "no"}

\* filter_if with name_dict.get(lookup, '') for name_dict[lookup]: a column
\* that is missing reads as the empty string, no KeyError
filter_if_get(tree, g, d, label) ==
    LET match == MatchMarker(label, "%IF_")
        var == IF match # <<>> /\ match[1] \in DOMAIN d THEN d[match[1]] ELSE ""
    IN  IF match = <<>> THEN [root |-> tree, warn |-> <<>>, next |-> TRUE]
        ELSE IF if_visible(var)
             THEN [root |-> StripStyle(tree, g), warn |-> <<>>, next |-> FALSE]
        ELSE [root |-> Clear(tree, g), warn |-> <<>>, next |-> TRUE]

\* filter_if without the continue of line 239: a visible group goes on to
\* the %UNLESS_???% part
filter_if_no_continue(tree, g, d, label) ==
    LET match == MatchMarker(label, "%IF_")
    IN  IF match = <<>> THEN [root |-> tree, warn |-> <<>>, next |-> TRUE]
        ELSE IF match[1] \notin DOMAIN d
             THEN [root |-> tree, warn |-> <<match[1]>>, next |-> FALSE]
        ELSE IF if_visible(d[match[1]])
             THEN [root |-> StripStyle(tree, g), warn |-> <<>>, next |-> TRUE]
        ELSE [root |-> Clear(tree, g), warn |-> <<>>, next |-> TRUE]

\* lines 225-242, the %IF_???% part of the loop body.  next: the loop body goes
\* on to the %UNLESS_???% part (no continue was executed).
filter_if(tree, g, d, label) ==
    LET match == MatchMarker(label, "%IF_")
    IN  IF match = <<>> THEN [root |-> tree, warn |-> <<>>, next |-> TRUE]
        ELSE IF match[1] \notin DOMAIN d
             THEN [root |-> tree, warn |-> <<match[1]>>, next |-> FALSE]
        ELSE IF if_visible(d[match[1]])
             THEN [root |-> StripStyle(tree, g), warn |-> <<>>, next |-> FALSE]
        ELSE [root |-> Clear(tree, g), warn |-> <<>>, next |-> TRUE]

\* lines 244-261, the %UNLESS_???% part of the loop body
filter_unless(tree, g, d, label) ==
    LET match == MatchMarker(label, "%UNLESS_")
    IN  IF match = <<>> THEN [root |-> tree, warn |-> <<>>]
        ELSE IF match[1] \notin DOMAIN d
             THEN [root |-> tree, warn |-> <<match[1]>>]
        ELSE IF unless_visible(d[match[1]])
             THEN [root |-> StripStyle(tree, g), warn |-> <<>>]
        ELSE [root |-> Clear(tree, g), warn |-> <<>>]

\* lines 216-261, the loop body of filter_layers for group g
filter_group(tree, g, d) ==
    IF "label" \notin DOMAIN tree[g].attrib THEN [root |-> tree, warn |-> <<>>]
    ELSE LET label == tree[g].attrib["label"]
         IN  IF ~Occurs(label, "%") THEN [root |-> tree, warn |-> <<>>]
             ELSE LET a == filter_if(tree, g, d, label)
                  IN  IF ~a.next THEN [root |-> a.root, warn |-> a.warn]
                      ELSE filter_unless(a.root, g, d, label)

RECURSIVE filter_layers_from(_, _, _, _)
filter_layers_from(tree, g, d, msgs) ==
    IF g > Len(tree) THEN [root |-> tree, warn |-> msgs]
    ELSE LET r == filter_group(tree, g, d)
         IN  filter_layers_from(r.root, g + 1, d, msgs \o r.warn)

\* filter_layers(root, name_dict): the tree it leaves and the columns reported
filter_layers(tree, d) == filter_layers_from(tree, 1, d, <<>>)

(***************************************************************************)
(* expand_extra_vars, get_line_desc, get_output, create_svg                *)
(***************************************************************************)

RECURSIVE expand_extra_vars_loop_skip(_, _, _, _, _)
\* expand_extra_vars_loop with the KeyError swallowed: a rule of an unknown
\* column is passed over
expand_extra_vars_loop_skip(line, d, var_type, replacement_strings, i) ==
    IF i > Len(replacement_strings) THEN [err |-> "", line |-> line]
    ELSE LET t == replacement_strings[i]
             parts == Split(t, "=>")
         IN  IF Len(parts) # 2
             THEN [err |-> "Unrecognized replacement string " \o t, line |-> line]
             ELSE IF ~Occurs(line, parts[1]) \/ parts[2] \notin DOMAIN d
             THEN expand_extra_vars_loop_skip(line, d, var_type, replacement_strings, i + 1)
             ELSE expand_extra_vars_loop_skip(Replace(line, parts[1], escape(d[parts[2]])),
                                              d, var_type, replacement_strings, i + 1)

RECURSIVE expand_extra_vars_loop(_, _, _, _, _)
\* lines 182-203: err is the message of the exception raised, "" when none is
expand_extra_vars_loop(line, d, var_type, replacement_strings, i) ==
    IF i > Len(replacement_strings) THEN [err |-> "", line |-> line]
    ELSE LET t == replacement_strings[i]
             parts == Split(t, "=>")
         IN  IF Len(parts) # 2
             THEN [err |-> "Unrecognized replacement string " \o t, line |-> line]
             ELSE LET old_txt == parts[1]
                      column == parts[2]
                  IN  IF ~Occurs(line, old_txt)
                      THEN expand_extra_vars_loop(line, d, var_type, replacement_strings, i + 1)
                      ELSE IF column \notin DOMAIN d
                      THEN [err |-> IF var_type = "name"
                                    THEN "Wrong column name \"" \o column \o "\""
                                    ELSE "Wrong column number (" \o column \o ")",
                            line |-> line]
                      ELSE expand_extra_vars_loop(Replace(line, old_txt, escape(d[column])),
                                                  d, var_type, replacement_strings, i + 1)

\* expand_extra_vars(line, name_dict) under the options extra_vars, var_type
expand_extra_vars(line, d, extra_vars, var_type) ==
    IF extra_vars = "" THEN [err |-> "", line |-> line]
    ELSE expand_extra_vars_loop(line, d, var_type, Split(extra_vars, "|"), 1)

\* dict(zip(hdr, line)): the pairs up to the shorter length, a later pair
\* replacing an earlier one of the same key
get_line_desc(hdr, line) ==
    LET n == IF Len(hdr) < Len(line) THEN Len(hdr) ELSE Len(line)
        last(k) == CHOOSE i \in 1..n : hdr[i] = k /\ \A j \in (i + 1)..n : hdr[j] # k
    IN  [k \in {hdr[i] : i \in 1..n} |-> line[last(k)]]

\* get_output(name_dict) under the option output
get_output(output, d, order) == expand_vars(output, d, order)

RECURSIVE substitute_lines(_, _, _, _, _, _)
\* lines 143-148: both substitutions on every line of the template; the
\* texts written so far are in done
substitute_lines(lines, d, order, extra_vars, var_type, done) ==
    IF Len(done) = Len(lines) THEN [err |-> "", texts |-> done]
    ELSE LET a == expand_extra_vars(lines[Len(done) + 1].text, d, extra_vars, var_type)
         IN  IF a.err # "" THEN [err |-> a.err, texts |-> done]
             ELSE substitute_lines(lines, d, order, extra_vars, var_type,
                                   Append(done, expand_vars(a.line, d, order)))

\* etree.fromstring: a line of the template is one group element, its text
\* the value of the label attribute
parse(lines, texts) ==
    [g \in 1..Len(lines) |->
        [parent |-> lines[g].parent,
         attrib |-> [k \in {"id", "label"} \cup (IF lines[g].styled THEN {"style"} ELSE {}) |->
                        IF k = "label" THEN texts[g]
                        ELSE IF k = "style" THEN "display:none" ELSE "g"],
         leaves |-> 1]]

\* create_svg(name_dict) up to line 151: the exception raised, the tree to
\* write and the columns filter_layers reported
create_svg(lines, d, order, extra_vars, var_type) ==
    LET s == substitute_lines(lines, d, order, extra_vars, var_type, <<>>)
    IN  IF s.err # "" THEN [err |-> s.err, root |-> <<>>, warn |-> <<>>]
        ELSE LET f == filter_layers(parse(lines, s.texts), d)
             IN  [err |-> "", root |-> f.root, warn |-> f.warn]

(***************************************************************************)
(* Specification SpecVars: expand_vars applied to a text, then to its own  *)
(* output, with the same row descriptor.                                   *)
(***************************************************************************)

Texts ==
    {"Hello %VAR_name%!", "%VAR_a%", "%VAR_a%%VAR_b%", "%VAR_a% & %VAR_b%",
     "%VAR_%VAR_a%%", "no token", "100%", "%VAR_zip%"}

Dicts ==
    {[k \in {"name", "show"} |-> IF k = "name" THEN "Alice" ELSE "yes"],
     [k \in {"a", "b"} |-> IF k = "a" THEN "x" ELSE "y"],
     [k \in {"a", "b"} |-> IF k = "a" THEN "A&B" ELSE "<"],
     [k \in {"a", "b"} |-> IF k = "a" THEN "%VAR_b%" ELSE "y"],
     [k \in {"a", "b"} |-> IF k = "a" THEN "b" ELSE "%"],
     [k \in {"a"} |-> "%VAR_a%x"]}

IdlePipe ==
    /\ args = <<>> /\ options = <<>> /\ datafile = <<>> /\ svg_file = <<>> /\ header = <<>>
    /\ data = <<>> /\ svgouts = <<>> /\ keyorder = <<>> /\ tmpfiles = <<>>
    /\ tmpdir = FALSE /\ created = <<>> /\ outputs = <<>> /\ previewed = <<>>
    /\ errors = <<>> /\ raised = "" /\ pc = "idle" /\ ri = 0 /\ ei = 0

IdleFilter ==
    /\ root = <<>> /\ root0 = <<>> /\ name_dict = <<>> /\ gi = 0 /\ warned = <<>>

IdleVars ==
    /\ text = "" /\ vdict = <<>> /\ out1 = "" /\ out2 = "" /\ vpc = 0

InitVars ==
    /\ IdlePipe /\ IdleFilter
    /\ text \in Texts
    /\ vdict \in Dicts
    /\ out1 = "" /\ out2 = "" /\ vpc = 0

\* out1 = expand_vars(text, vdict)
ExpandFirst ==
    /\ vpc = 0
    /\ \E order \in Perms(DOMAIN vdict) : out1' = expand_vars(text, vdict, order)
    /\ vpc' = 1
    /\ UNCHANGED <<text, vdict, out2, pipevars, filtervars>>

\* out2 = expand_vars(out1, vdict)
ExpandSecond ==
    /\ vpc = 1
    /\ \E order \in Perms(DOMAIN vdict) : out2' = expand_vars(out1, vdict, order)
    /\ vpc' = 2
    /\ UNCHANGED <<text, vdict, out1, pipevars, filtervars>>

NextVars == ExpandFirst \/ ExpandSecond

SpecVars == InitVars /\ [][NextVars]_vars

\* text holds the token %VAR_k% of a key k of d
HasToken(t, d) == \E k \in DOMAIN d : Occurs(t, "%VAR_" \o k \o "%")

\* C9 as claimed: the output of expand_vars holds no token of the descriptor,
\* is the same in every iteration order of the descriptor, and a second
\* application returns it unchanged.
C9_AsClaimed ==
    /\ vpc >= 1 => /\ ~HasToken(out1, vdict)
                   /\ \A order \in Perms(DOMAIN vdict) :
                          expand_vars(text, vdict, order) = out1
    /\ vpc = 2 => out2 = out1

\* C9 (amended): when the output of expand_vars holds no %VAR_k% token of a
\* key k of the descriptor, a second application with the same descriptor
\* returns it unchanged, in every iteration order.
C9_IdempotentWithoutTokens ==
    (vpc = 2 /\ ~HasToken(out1, vdict)) => out2 = out1

\* a text with a token was substituted, no token is left, and the second
\* application changed nothing
C9_Witness ==
    /\ vpc = 2
    /\ HasToken(text, vdict)
    /\ out1 # text
    /\ ~HasToken(out1, vdict)
    /\ out2 = out1

(***************************************************************************)
(* Specification SpecFilter: one call of filter_layers, one group of the   *)
(* xpath result per step.                                                  *)
(***************************************************************************)

MaxGroups == 2

\* the attributes of a group element: an id, a label when it is a layer, a
\* style when it is hidden
Attribs(label, styled) ==
    [k \in {"id"} \cup (IF label = "" THEN {} ELSE {"label"})
                  \cup (IF styled THEN {"style"} ELSE {}) |->
        IF k = "label" THEN label ELSE IF k = "style" THEN "display:none" ELSE "g"]

GroupAttribs ==
    {Attribs("", TRUE), Attribs("50%", TRUE),
     Attribs("Greeting %IF_a%", TRUE), Attribs("%IF_a%", FALSE),
     Attribs("%UNLESS_b%", TRUE), Attribs("%IF_a% %UNLESS_b%", TRUE),
     Attribs("%IF_x%", TRUE), Attribs("%UNLESS_x%", TRUE),
     Attribs("%IF_a% %UNLESS_x%", TRUE), Attribs("%IF_x% %UNLESS_b%", TRUE)}

\* the documents of n groups: each group lies in the root or in a group
\* that comes before it in document order
TreesOf(n) ==
    {t \in [1..n -> [parent : 0..(n - 1), attrib : GroupAttribs, leaves : {1}]] :
        \A g \in 1..n : t[g].parent < g}

Trees == UNION {TreesOf(n) : n \in 1..MaxGroups}

FilterDicts ==
    {[k \in {"a", "b"} |-> IF k = "a" THEN va ELSE vb] :
        va \in {"yes", "No"}, vb \in {"1", "FALSE"}}
    \cup {[k \in {"a", "b"} |-> IF k = "a" THEN "" ELSE "0"],
          [k \in {"a", "b"} |-> IF k = "a" THEN "false" ELSE "no"]}

InitFilter ==
    /\ IdlePipe /\ IdleVars
    /\ root0 \in Trees
    /\ root = root0
    /\ name_dict \in FilterDicts
    /\ gi = 1
    /\ warned = [g \in 1..Len(root0) |-> <<>>]

\* one pass of the loop of filter_layers (lines 215-261)
FilterStep ==
    /\ gi <= Len(root)
    /\ LET r == filter_group(root, gi, name_dict)
       IN  /\ root' = r.root
           /\ warned' = [warned EXCEPT ![gi] = r.warn]
    /\ gi' = gi + 1
    /\ UNCHANGED <<root0, name_dict, pipevars, varsvars>>

NextFilter == FilterStep

SpecFilter == InitFilter /\ [][NextFilter]_vars

\* --- what the claims about filter_layers speak of ---

\* the groups the loop has been through
Examined == 1..(gi - 1)

IsLayer(g) == "label" \in DOMAIN root0[g].attrib
LabelOf(g) == root0[g].attrib["label"]
IfCol(g) == MatchMarker(LabelOf(g), "%IF_")
UnlessCol(g) == MatchMarker(LabelOf(g), "%UNLESS_")

\* is_true(v) of the specification
IsTrue(v) == v # "" /\ Lower(v) \notin {"0", "false", "no"}

\* the group has the attributes and the children it had before the filter
Unmodified(g) ==
    /\ root[g].attrib = root0[g].attrib
    /\ root[g].leaves = root0[g].leaves
    /\ ChildGroups(root, g) = ChildGroups(root0, g)

\* kept: the style attribute is gone, the other attributes and the children stay
KeptStripped(g) ==
    /\ root[g].attrib = DelAttrib(root0[g].attrib, "style")
    /\ root[g].leaves = root0[g].leaves
    /\ ChildGroups(root, g) = ChildGroups(root0, g)

\* emptied: no attribute, no child
Emptied(g) ==
    /\ DOMAIN root[g].attrib = {}
    /\ root[g].leaves = 0
    /\ ChildGroups(root, g) = {}

RECURSIVE InTree(_, _)
\* the group is still reached from the root of the document
InTree(tree, g) ==
    IF g = 0 THEN TRUE
    ELSE IF tree[g].parent = Detached THEN FALSE
    ELSE InTree(tree, tree[g].parent)

RECURSIVE Ancestors(_, _)
\* the groups that enclose g
Ancestors(tree, g) ==
    IF tree[g].parent <= 0 THEN {}
    ELSE {tree[g].parent} \cup Ancestors(tree, tree[g].parent)

Present(col) == col # <<>> /\ col[1] \in DOMAIN name_dict
Missing(col) == col # <<>> /\ col[1] \notin DOMAIN name_dict

\* C4 as claimed: a layer group whose label names, in an %IF_col% or an
\* %UNLESS_col% marker, a column the row descriptor lacks gets a warning and
\* has after the filter the attributes and children it had before.
C4_AsClaimed ==
    \A g \in Examined :
        (IsLayer(g) /\ (Missing(IfCol(g)) \/ Missing(UnlessCol(g))))
            => (warned[g] # <<>> /\ Unmodified(g))

\* C4 (amended): a lookup miss in the first marker the filter evaluates is
\* not fatal and leaves the group unmodified: when the %IF_col% marker names
\* a column the row descriptor lacks, or the label has no %IF_ marker and the
\* %UNLESS_col% marker names such a column, filter_layers reports that
\* column, and the group has the same attributes and children after the
\* filter as before it.
C4_MissLeavesGroup ==
    \A g \in Examined :
        (IsLayer(g) /\ (Missing(IfCol(g)) \/ (IfCol(g) = <<>> /\ Missing(UnlessCol(g)))))
            => /\ warned[g] = (IF Missing(IfCol(g)) THEN IfCol(g) ELSE UnlessCol(g))
               /\ Unmodified(g)

\* a hidden layer whose %IF_ marker names a missing column was reported and
\* left as it was, and the loop went through the group after it
C4_Witness ==
    \E g \in Examined :
        /\ g + 1 \in Examined
        /\ IsLayer(g) /\ Missing(IfCol(g))
        /\ warned[g] # <<>>
        /\ Unmodified(g)
        /\ "style" \in DOMAIN root[g].attrib
        /\ root[g].leaves > 0

OnlyIf(g) == IsLayer(g) /\ Present(IfCol(g)) /\ UnlessCol(g) = <<>>
OnlyUnless(g) == IsLayer(g) /\ IfCol(g) = <<>> /\ Present(UnlessCol(g))

\* C6 as claimed: a layer with only %IF_col% ends kept with its style stripped
\* when is_true(row[col]), and else emptied while still present in the tree;
\* a layer with only %UNLESS_col% gets the opposite outcome.
C6_AsClaimed ==
    \A g \in Examined :
        /\ OnlyIf(g) =>
              IF IsTrue(name_dict[IfCol(g)[1]]) THEN KeptStripped(g)
              ELSE Emptied(g) /\ InTree(root, g)
        /\ OnlyUnless(g) =>
              IF IsTrue(name_dict[UnlessCol(g)[1]]) THEN Emptied(g) /\ InTree(root, g)
              ELSE KeptStripped(g)

\* no group that encloses g was emptied
NoAncestorEmptied(g) == \A h \in Ancestors(root0, g) : ~Emptied(h)

\* C6 (amended): a layer with only %IF_col% ends kept with its style stripped
\* and its children intact when is_true(row[col]), and else emptied (no
\* children, no attributes); the emptied group is still present in the tree
\* unless a group that encloses it was emptied too.  A layer with only
\* %UNLESS_col% gets the opposite outcome for the same value.
C6_SingleMarker ==
    \A g \in Examined :
        /\ OnlyIf(g) =>
              IF IsTrue(name_dict[IfCol(g)[1]]) THEN KeptStripped(g)
              ELSE Emptied(g) /\ (NoAncestorEmptied(g) => InTree(root, g))
        /\ OnlyUnless(g) =>
              IF IsTrue(name_dict[UnlessCol(g)[1]])
              THEN Emptied(g) /\ (NoAncestorEmptied(g) => InTree(root, g))
              ELSE KeptStripped(g)

\* an %IF_ layer of a false-like value ("No") was emptied and is in the tree,
\* and an %UNLESS_ layer of a false-like value was kept, its style stripped
C6_Witness ==
    \E g, h \in Examined :
        /\ OnlyIf(g) /\ ~IsTrue(name_dict[IfCol(g)[1]]) /\ name_dict[IfCol(g)[1]] # ""
        /\ Emptied(g) /\ InTree(root, g)
        /\ OnlyUnless(h) /\ ~IsTrue(name_dict[UnlessCol(h)[1]])
        /\ KeptStripped(h) /\ "style" \in DOMAIN root0[h].attrib


(***************************************************************************)
(* Specification Spec: effect(), from a constructed Generator to the end   *)
(* of clean() or to the exception that ends the run.                       *)
(***************************************************************************)

MaxRows == 2

Header == <<"name", "show">>

Rows == {<<"Alice", "yes">>, <<"Bob">>}

\* the sequences of at most MaxRows rows
RowSeqs == UNION {[1..n -> Rows] : n \in 0..MaxRows}

ExtraVars == {"", "FOO=>name", "FOO=>show", "F=>name|FOO=>nope", "FOO=>name|BAR"}

Templates ==
    {<<[parent |-> 0, text |-> "Card FOO %VAR_name%%VAR_0%", styled |-> FALSE],
       [parent |-> 1, text |-> "%IF_show%", styled |-> TRUE]>>,
     <<[parent |-> 0, text |-> "BAR", styled |-> TRUE]>>}

Put(f, k, v) == [x \in (DOMAIN f) \cup {k} |-> IF x = k THEN v ELSE f[x]]
Drop(f, K) == [x \in (DOMAIN f) \ K |-> f[x]]
EmptyDict == [x \in {} |-> 0]

\* str(i) for a column index
Str(i) == SubSeq("0123456789", i + 1, i + 1)

\* the data files: one that cannot be read, an empty one, and those of at
\* most MaxRows rows, after a header row when the columns go by name
DataFiles(var_type) ==
    {[readable |-> FALSE, rows |-> <<>>], [readable |-> TRUE, rows |-> <<>>]}
    \cup {[readable |-> TRUE, rows |-> IF var_type = "name" THEN <<Header>> \o r ELSE r] :
             r \in RowSeqs}

\* the Generator as __init__ leaves it (lines 58-95), with the options parsed
Init ==
    /\ IdleFilter /\ IdleVars
    /\ args \in [format : {"PDF", "svg", "JPG"},
                 var_type : {"name", "number"},
                 extra_vars : ExtraVars,
                 output : {"out/%VAR_name%.jpg", "out/%VAR_0%.jpg"},
                 preview : {"false", "True"}]
    /\ args.output = (IF args.var_type = "name" THEN "out/%VAR_name%.jpg"
                      ELSE "out/%VAR_0%.jpg")
    /\ options = args
    /\ datafile \in DataFiles(options.var_type)
    /\ svg_file \in Templates
    /\ header = <<>>
    /\ data = <<>>
    /\ svgouts = EmptyDict
    /\ keyorder = <<>>
    /\ tmpfiles = EmptyDict
    /\ tmpdir = TRUE
    /\ created = <<>>
    /\ outputs = <<>>
    /\ previewed = <<>>
    /\ errors = <<>>
    /\ raised = ""
    /\ pc = "effect"
    /\ ri = 1
    /\ ei = 1

\* an exception leaves effect(): nothing after it runs
Raise(what) == raised' = what /\ pc' = "aborted"

\* where effect() goes when the loop of export is over (lines 106-108)
AfterExport == IF Lower(options.preview) = "true" THEN "show_preview" ELSE "clean"

\* effect() line 99 and handle_csv (lines 110-127)
handle_csv ==
    /\ pc = "effect"
    /\ options' = [options EXCEPT !.format = Lower(@)]
    /\ IF ~datafile.readable
       THEN /\ errors' = Append(errors, "Cannot read")
            /\ Raise("Cannot read")
            /\ UNCHANGED <<header, data>>
       ELSE IF options.var_type = "name" /\ datafile.rows = <<>>
       THEN /\ errors' = Append(errors, "contains no data")
            /\ Raise("contains no data")
            /\ UNCHANGED <<header, data>>
       ELSE /\ IF options.var_type = "name"
               THEN header' = Head(datafile.rows) /\ data' = Tail(datafile.rows)
               ELSE header' = header /\ data' = datafile.rows
            /\ pc' = IF options.var_type = "name" THEN "create_svg_name"
                     ELSE "create_svg_number"
            /\ UNCHANGED <<errors, raised>>
    /\ UNCHANGED <<args, datafile, svg_file, svgouts, keyorder, tmpfiles, tmpdir, created,
                   outputs, previewed, ri, ei, filtervars, varsvars>>

\* create_svg_number (lines 129-132) up to its call of create_svg_name
create_svg_number ==
    /\ pc = "create_svg_number"
    /\ IF data = <<>>
       THEN Raise("IndexError") /\ UNCHANGED header
       ELSE /\ header' = [i \in 1..Len(data[1]) |-> Str(i - 1)]
            /\ pc' = "create_svg_name"
            /\ UNCHANGED raised
    /\ UNCHANGED <<args, options, datafile, svg_file, data, svgouts, keyorder, tmpfiles,
                   tmpdir, created, outputs, previewed, errors, ri, ei,
                   filtervars, varsvars>>

\* the loop of create_svg_name is over (line 136) and effect() comes to
\* export(): self.svgouts iterates in some order of its keys from here on
create_svg_name_end ==
    /\ pc = "create_svg_name"
    /\ ri > Len(data)
    /\ keyorder' \in Perms(DOMAIN svgouts)
    /\ pc' = "export"
    /\ UNCHANGED <<args, options, datafile, svg_file, header, data, svgouts, tmpfiles,
                   tmpdir, created, outputs, previewed, errors, raised, ri, ei,
                   filtervars, varsvars>>

\* one pass of the loop of create_svg_name (lines 136-138) with create_svg
\* (lines 140-163) for the row data[ri].  Writing the temporary file ends
\* well ("written"), fails in open() ("open": errormsg, then f.close() in the
\* finally clause finds no f), or fails in f.write() ("write": errormsg, the
\* file is there without the document, and the run goes on).
create_svg_name ==
    /\ pc = "create_svg_name"
    /\ ri <= Len(data)
    /\ LET l == data[ri]
           d == get_line_desc(header, l)
           svgout == Len(created) + 1
       IN  \E order \in Perms(DOMAIN d), io \in {"written", "open", "write"} :
             LET r == create_svg(svg_file, d, order, options.extra_vars, options.var_type)
             IN  IF r.err # ""
                 THEN /\ errors' = Append(errors, r.err)
                      /\ Raise(r.err)
                      /\ UNCHANGED <<svgouts, tmpfiles, created, ri>>
                 ELSE IF io = "open"
                 THEN /\ errors' = errors \o r.warn \o <<"Cannot open for writing">>
                      /\ Raise("UnboundLocalError")
                      /\ UNCHANGED <<svgouts, tmpfiles, created, ri>>
                 ELSE /\ errors' = errors \o r.warn \o
                            (IF io = "write" THEN <<"Cannot open for writing">> ELSE <<>>)
                      /\ tmpfiles' = Put(tmpfiles, svgout, IF io = "write" THEN <<>> ELSE r.root)
                      /\ svgouts' = Put(svgouts, l, svgout)
                      /\ created' = Append(created, <<l, svgout>>)
                      /\ ri' = ri + 1
                      /\ UNCHANGED <<raised, pc>>
    /\ UNCHANGED <<args, options, datafile, svg_file, header, data, keyorder, tmpdir,
                   outputs, previewed, ei, filtervars, varsvars>>

\* the loop of export is over
export_end ==
    /\ pc = "export"
    /\ ei > Len(keyorder)
    /\ pc' = AfterExport
    /\ UNCHANGED <<args, options, datafile, svg_file, header, data, svgouts, keyorder,
                   tmpfiles, tmpdir, created, outputs, previewed, errors, raised,
                   ri, ei, filtervars, varsvars>>

\* lines 287-290: the format and the output file export goes on with
export_format(format, outfile) ==
    IF format = "jpg"
    THEN [format |-> "png", outfile |-> Replace(outfile, "jpg", "png")]
    ELSE [format |-> format, outfile |-> outfile]

\* one pass of the loop of export (lines 284-300) for the entry keyorder[ei].
\* shutil.move ends well ("moved"), with an OSError, which export reports
\* and which leaves the source file in place ("OSError"), or with another
\* exception, which export does not catch ("IOError").
export ==
    /\ pc = "export"
    /\ ei <= Len(keyorder)
    /\ LET line == keyorder[ei]
           svgfile == svgouts[line]
           d == get_line_desc(header, line)
       IN  \E order \in Perms(DOMAIN d) :
             LET f == export_format(options.format, get_output(options.output, d, order))
             IN  /\ options' = [options EXCEPT !.format = f.format]
                 /\ IF f.format = "svg"
                    THEN \E move \in {"moved", "OSError", "IOError"} :
                           CASE move = "moved" ->
                                  /\ tmpfiles' = Drop(tmpfiles, {svgfile})
                                  /\ outputs' = Append(outputs,
                                        [how |-> "move", format |-> f.format,
                                         outfile |-> f.outfile, svgfile |-> svgfile,
                                         row |-> line])
                                  /\ ei' = ei + 1
                                  /\ UNCHANGED <<errors, raised, pc>>
                             [] move = "OSError" ->
                                  /\ errors' = Append(errors, "Cannot create \"" \o f.outfile \o "\"")
                                  /\ ei' = ei + 1
                                  /\ UNCHANGED <<tmpfiles, outputs, raised, pc>>
                             [] move = "IOError" ->
                                  /\ Raise("IOError")
                                  /\ UNCHANGED <<tmpfiles, outputs, errors, ei>>
                    ELSE /\ outputs' = Append(outputs,
                               [how |-> "render", format |-> f.format,
                                outfile |-> f.outfile, svgfile |-> svgfile,
                                row |-> line])
                         /\ ei' = ei + 1
                         /\ UNCHANGED <<tmpfiles, errors, raised, pc>>
    /\ UNCHANGED <<args, datafile, svg_file, header, data, svgouts, keyorder, tmpdir,
                   created, previewed, ri, filtervars, varsvars>>

\* show_preview (lines 302-316): the first key of self.svgouts, every
\* exception reported and swallowed
show_preview ==
    /\ pc = "show_preview"
    /\ IF keyorder = <<>>
       THEN /\ errors' = Append(errors, "Error open preview file")
            /\ UNCHANGED previewed
       ELSE LET d == get_line_desc(header, keyorder[1])
            IN  \E order \in Perms(DOMAIN d), opened \in BOOLEAN :
                  IF opened
                  THEN /\ previewed' = Append(previewed, get_output(options.output, d, order))
                       /\ UNCHANGED errors
                  ELSE /\ errors' = Append(errors, "Error open preview file")
                       /\ UNCHANGED previewed
    /\ pc' = "clean"
    /\ UNCHANGED <<args, options, datafile, svg_file, header, data, svgouts, keyorder,
                   tmpfiles, tmpdir, created, outputs, raised, ri, ei,
                   filtervars, varsvars>>

\* the temporary files clean() removes (lines 320-322)
clean_removes == IF options.format # "svg" THEN {svgouts[k] : k \in DOMAIN svgouts} ELSE {}

\* clean (lines 318-323): os.remove raises for a file that is not there,
\* os.rmdir for a directory that is not empty
clean ==
    /\ pc = "clean"
    /\ IF ~(clean_removes \subseteq DOMAIN tmpfiles)
       THEN /\ Raise("OSError: remove")
            /\ UNCHANGED <<tmpfiles, tmpdir>>
       ELSE /\ tmpfiles' = Drop(tmpfiles, clean_removes)
            /\ IF DOMAIN tmpfiles' # {}
               THEN Raise("OSError: rmdir") /\ UNCHANGED tmpdir
               ELSE tmpdir' = FALSE /\ pc' = "done" /\ UNCHANGED raised
    /\ UNCHANGED <<args, options, datafile, svg_file, header, data, svgouts, keyorder,
                   created, outputs, previewed, errors, ri, ei, filtervars, varsvars>>

Next ==
    \/ handle_csv
    \/ create_svg_number
    \/ create_svg_name
    \/ create_svg_name_end
    \/ export
    \/ export_end
    \/ show_preview
    \/ clean

Spec == Init /\ [][Next]_vars


\* --- what the claims about a run speak of ---

\* the rules of the option extra_vars, in order
Rules == IF args.extra_vars = "" THEN <<>> ELSE Split(args.extra_vars, "|")

\* the entry splits into exactly (literal, column) around "=>"
WellFormed(t) == Len(Split(t, "=>")) = 2
Literal(t) == Split(t, "=>")[1]
Column(t) == Split(t, "=>")[2]

\* effect() has gone past the loop of create_svg_name
PastCreate == pc \in {"export", "show_preview", "clean", "done"}

\* effect() has gone past export()
PastExport == pc \in {"show_preview", "clean", "done"}

\* the place of the first row of self.data equal to row
FirstIndex(row) == CHOOSE i \in 1..Len(data) : data[i] = row /\ \A j \in 1..(i - 1) : data[j] # row

\* C1 as claimed: one document per row: once export() is over, a table of n
\* data rows (equal rows included) has had n intermediate documents
\* materialized and n documents handled by export(), one for each row.
C1_AsClaimed ==
    PastExport =>
        /\ Len(created) = Len(data)
        /\ Len(keyorder) = Len(data)
        /\ \A i \in 1..Len(data) :
              \E j \in 1..Len(keyorder) : svgouts[keyorder[j]] = created[i][2]

\* the text of template line l when rule i comes to it for the row
\* descriptor d: the rules before i have replaced their literals
RECURSIVE TextAtRule(_, _, _)
TextAtRule(l, d, i) ==
    IF i = 1 THEN svg_file[l].text
    ELSE LET before == TextAtRule(l, d, i - 1)
             t == Rules[i - 1]
         IN  IF WellFormed(t) /\ Column(t) \in DOMAIN d
             THEN Replace(before, Literal(t), escape(d[Column(t)]))
             ELSE before

\* C2 as claimed: when, for some row and some template line, the literal of a
\* rule occurs in the line and the column of the rule is no key of the row's
\* descriptor, the run aborts and no output file is exported or rendered.
C2_AsClaimed ==
    (\E r \in 1..Len(data), l \in 1..Len(svg_file), i \in 1..Len(Rules) :
        /\ WellFormed(Rules[i])
        /\ Occurs(svg_file[l].text, Literal(Rules[i]))
        /\ Column(Rules[i]) \notin DOMAIN get_line_desc(header, data[r]))
    => (~PastCreate /\ outputs = <<>>)

\* C2 (amended): an unknown column in a Stage-A rule is fatal and global:
\* when, for some row and some template line, the literal of a rule occurs in
\* the line as the rules before it have left it, and the column of the rule
\* is no key of the row's descriptor, the run aborts: it does not come to
\* export(), and no output file is exported or rendered for any row, the rows
\* before the failing one included.
C2_UnknownColumnIsFatal ==
    (\E r \in 1..Len(data), l \in 1..Len(svg_file), i \in 1..Len(Rules) :
        /\ WellFormed(Rules[i])
        /\ Occurs(TextAtRule(l, get_line_desc(header, data[r]), i), Literal(Rules[i]))
        /\ Column(Rules[i]) \notin DOMAIN get_line_desc(header, data[r]))
    => (~PastCreate /\ outputs = <<>>)

\* the run was ended by the unknown column of the second row, after the
\* document of the first row was materialized, and nothing was exported
C2_Witness ==
    /\ pc = "aborted"
    /\ raised = "Wrong column name \"show\""
    /\ Len(created) = 1
    /\ DOMAIN tmpfiles # {}
    /\ outputs = <<>>

\* the option extra_vars holds an entry that is no (literal, column) pair
Malformed == \E i \in 1..Len(Rules) : ~WellFormed(Rules[i])

\* the table was read: handle_csv has returned
TableRead == pc \notin {"effect"} /\ raised \notin {"Cannot read", "contains no data"}

\* C3 as claimed: with a malformed entry in a non-empty extra-replacements
\* string, the run aborts with the 'Unrecognized replacement string' error
\* before any row is materialized or exported, whatever the table holds (a
\* table with no data rows included).
C3_AsClaimed ==
    (Malformed /\ TableRead) =>
        /\ ~PastCreate
        /\ created = <<>> /\ outputs = <<>>
        /\ pc = "aborted" =>
              SubSeq(raised, 1, Len("Unrecognized replacement string")) =
                  "Unrecognized replacement string"

\* C7 as claimed: the i-th document materialized belongs to the i-th data
\* row, and export() writes or renders the output of row i before the output
\* of row j whenever i < j in the source.
C7_AsClaimed ==
    /\ \A i \in 1..Len(created) : created[i][1] = data[i]
    /\ \A p, q \in 1..Len(outputs) :
          p < q => FirstIndex(outputs[p].row) < FirstIndex(outputs[q].row)

\* C8 as claimed: in a run that comes to clean() without a fatal error,
\* clean() completes without error, and afterwards the temporary directory
\* does not exist and holds no intermediate document.
C8_AsClaimed ==
    /\ raised \notin {"OSError: remove", "OSError: rmdir"}
    /\ pc = "done" => (~tmpdir /\ DOMAIN tmpfiles = {})

\* C10 as claimed: when the format asked for is jpg, every row is rendered
\* with the format png, to the resolved output pattern with "jpg" replaced
\* by "png".
C10_AsClaimed ==
    Lower(args.format) = "jpg" =>
        \A i \in 1..Len(outputs) :
            LET d == get_line_desc(header, outputs[i].row)
            IN  /\ outputs[i].how = "render"
                /\ outputs[i].format = "png"
                /\ \E order \in Perms(DOMAIN d) :
                      outputs[i].outfile =
                          Replace(get_output(args.output, d, order), "jpg", "png")

====
